---- MODULE Spec2Model ----
(***************************************************************************)
(* EventHandler: the module side of the module <-> kernel link, as of the  *)
(* class that keeps one persistent stream and the pendingMessages map.     *)
(*                                                                         *)
(* One action is one run-to-completion turn of the JavaScript event loop:  *)
(* a public method called by the application, one 'data' notification of   *)
(* the secure stream handled by the listener installed in init(), or a     *)
(* fan-out returning to the listener.  A continuation that the runtime     *)
(* runs as a microtask right after the turn that settles its promise (the  *)
(* rest of dispose() after its await) is part of that turn.  init() is     *)
(* shown in two halves so that the order of its two stream calls is        *)
(* visible; nothing else runs between them.                                *)
(*                                                                         *)
(* Delegate (Utils/Delegate/Delegate) is imported by the source but is not *)
(* among the source files: bind, unbind and invokeAsync follow the         *)
(* written design (append, remove first match, deadline fan-out).  How the *)
(* handlers of a fan-out stand when it returns is an input of that turn.   *)
(*                                                                         *)
(* The configuration is an input of the constructor: the log level is     *)
(* either above Debug or Debug itself.  The chain of nested Log and        *)
(* doRequest calls a Debug threshold starts ends when the call stack is    *)
(* exhausted; here it ends when the uuids of the run are.                  *)
(*                                                                         *)
(* A rejected promise nobody handles is reported by the runtime either as  *)
(* a warning or as an 'uncaughtException', depending on the version of the *)
(* runtime: both outcomes are possible.                                    *)
(***************************************************************************)
EXTENDS Integers, Sequences, FiniteSets, TLC

\* ------------------------------------------------------------------ bounds

\* doRequest calls over one run (each draws a fresh uuid).
MaxIds == 3
\* Inbound events dispatched to local handlers over one run.
MaxDispatch == 1
\* Bindings held by one Delegate.
MaxBindings == 2

\* ------------------------------------------------------------- JSON values

JNull == [t |-> "null"]
JArr(s) == [t |-> "arr", v |-> s]
JObj(e) == [t |-> "obj", eventname |-> e]
EmptyObj == JObj("")
\* The payload of a "kernel/log" request: {message: ...}.
LogMessage == [t |-> "message"]

\* ------------------------------------------------------------ input domains

modulename == "mod"
\* The thresholds the link is configured with, and the levels Log is
\* called with.
ConfigLevels == {"Debug", "Warning"}
CallLevels == {"Debug", "Error"}

\* Event names the application subscribes to.
Events == {"e1"}
\* Event names the application requests.
RequestPaths == {"app/get"}
\* An envelope without an eventname field (a response).
NoEvent == ""
Handlers == {"h1", "h2"}
Contexts == {"c1"}
\* (func, classcontext) pairs.
BindingPairs == Handlers \X Contexts

\* uuids drawn by getUUID(), in order of generation.
Ids == 1 .. MaxIds
\* Ids the kernel uses for its own events; never equal to a generated uuid.
ForeignIds == {0}
\* The payload of an inbound envelope: absent, or an array of responses.
InPayloads == {JNull, JArr(<<"r1">>)}
\* The content field of an inbound envelope that answers a request.
InContent == JArr(<<"c1">>)

\* The process events init() registers its listener for.
HookEvents ==
    {"beforeExit", "SIGINT", "SIGUSR1", "SIGUSR2", "uncaughtException", "SIGTERM"}
\* The signals delivered to the process over one run.
Signals == {"SIGINT"}
\* The listener init() registers, and the one dispose() asks process.off
\* to remove: two distinct function objects.
ShutdownHook == "async (code) => { await this.dispose(); process.exit(code) }"
DisposeArrow == "() => this.dispose"
\* exitCode while the process runs.
NotExited == ""
\* What the runtime does with a rejected promise nobody handles.
UnhandledRejections == {"warn", "throw"}

VARIABLES
    secStream,        \* "none" | "open" | "destroyed"
    listening,        \* the 'data' listener is installed on secStream
    initPc,           \* init(): "start" | "listen" | "done"
    pendingMessages,  \* keys of the pendingMessages map
    promises,         \* per uuid: the promise doRequest returned
    nextId,           \* the next uuid getUUID() returns
    bindings,         \* eventname -> its Delegate, if the map has the name
    disposed,         \* the guard flag
    disposePc,        \* the dispose() call that passed the guard
    disposeId,        \* the uuid of its "kernel/dispose" request (0: none)
    wire,             \* the calls made on secStream, in order
    inflight,         \* fan-outs the listener is awaiting
    last,             \* the turn that ran last, and the branch it took
                      \* (a turn that returns early leaves no trace)
    loglevel,         \* config.loglevel
    hooks,            \* <<event, listener>> pairs registered on process
    exiting,          \* codes of the hook calls awaiting dispose()
    exitCode          \* the code process.exit was called with

vars == <<secStream, listening, initPc, pendingMessages, promises, nextId,
          bindings, disposed, disposePc, disposeId, wire, inflight, last,
          loglevel, hooks, exiting, exitCode>>

config == [timeout |-> "cfgTimeout", pass |-> "secret", loglevel |-> loglevel]

\* ------------------------------------------------------------------ helpers

\* A name the bindings map does not hold.
NoDelegate == [has |-> FALSE, funcs |-> <<>>]

\* The promise of a uuid not drawn yet.  path: the eventname requested;
\* st: "none" | "pending" | "resolved" | "rejected"; val: the value resolved
\* with; n: calls of the stored resolve callback; by: the id of the envelope
\* the callback was called for.
NoPromise == [path |-> "", st |-> "none", val |-> <<>>, n |-> 0, by |-> 0]

\* One call of secStream.write(JSON.stringify(data)) with a request envelope.
RequestEnvelope(uuid, path, timeout, payload) ==
    [op |-> "write", kind |-> "request", id |-> uuid, pass |-> config.pass,
     modulename |-> modulename, eventname |-> path, timeout |-> timeout,
     payload |-> payload, statuscode |-> 0, detailedstatus |-> "",
     content |-> <<>>]

DestroyCall ==
    [op |-> "destroy", kind |-> "", id |-> 0, pass |-> "", modulename |-> "",
     eventname |-> "", timeout |-> "", payload |-> JNull, statuscode |-> 0,
     detailedstatus |-> "", content |-> <<>>]

Last(op, branch) == [op |-> op, branch |-> branch]

LogLevelRank == [Debug |-> 0, Info |-> 1, Warning |-> 2, Error |-> 3]

\* The process runs: process.exit has not been called.
Running == exitCode = NotExited

\* ------------------------------------------------------------------ Init

Init ==
    /\ secStream = "none"
    /\ listening = FALSE
    /\ initPc = "start"
    /\ pendingMessages = {}
    /\ promises = [i \in Ids |-> NoPromise]
    /\ nextId = 1
    /\ bindings = [e \in Events |-> NoDelegate]
    /\ disposed = FALSE
    /\ disposePc = "idle"
    /\ disposeId = 0
    /\ wire = << >>
    /\ inflight = << >>
    /\ last = Last("new", "")
    /\ loglevel \in ConfigLevels
    /\ hooks = {}
    /\ exiting = << >>
    /\ exitCode = NotExited

\* ------------------------------------------------------------- doRequest

\* The last uuid a call may draw: one is kept for init().
IdCap == IF initPc = "start" THEN MaxIds - 1 ELSE MaxIds

\* The test Log makes first: logLevel is not below the configured level.
LogIssues(logLevel) ==
    LogLevelRank[logLevel] >= LogLevelRank[config.loglevel]

\* The uuids of the "kernel/log" requests nested in a doRequest call that
\* drew uuid, innermost first, the order they are written in: doRequest
\* calls logger.Log(Debug, ...) with logger = this before its own write,
\* Log calls requestInternal, requestInternal calls doRequest again with
\* logger = this.
LogChain(uuid) ==
    IF LogIssues("Debug")
    THEN [k \in 1 .. (IdCap - uuid) |-> IdCap + 1 - k]
    ELSE << >>

\* doRequest(SecStream, path, timeout, payload): a fresh uuid, its resolve
\* callback stored under it, the Log call, the envelope written.  Before
\* init() secStream is undefined, the write throws inside the promise
\* executor and the promise is rejected, its entry already stored.  A write
\* on a destroyed stream is still a call on the stream.
doRequest(path, timeout, payload) ==
    LET uuid == nextId
        data == RequestEnvelope(uuid, path, timeout, payload)
        logs == LogChain(uuid)
        logged == {logs[k] : k \in 1 .. Len(logs)}
        st == IF secStream = "none" THEN "rejected" ELSE "pending"
    IN  /\ uuid <= IdCap
        /\ nextId' = uuid + 1 + Len(logs)
        /\ pendingMessages' = pendingMessages \cup {uuid} \cup logged
        /\ promises' = [i \in Ids |->
                IF i = uuid
                THEN [NoPromise EXCEPT !.path = path, !.st = st]
                ELSE IF i \in logged
                THEN [NoPromise EXCEPT !.path = "kernel/log", !.st = st]
                ELSE promises[i]]
        /\ wire' = IF secStream = "none"
                   THEN wire
                   ELSE wire
                        \o [k \in 1 .. Len(logs) |->
                                RequestEnvelope(logs[k], "kernel/log",
                                                config.timeout, LogMessage)]
                        \o <<data>>

\* No init() turn is half done: init() runs to completion synchronously.
Idle == initPc # "listen"

\* ------------------------------------------------------------------ init

\* initListen with the listener installed only after the request is sent
\* (the order of the superseded init()).
initListen_listenLater ==
    /\ initPc = "start"
    /\ initPc' = "listen"
    /\ secStream' = "open"
    /\ listening' = FALSE
    /\ hooks' = hooks \cup {<<t, ShutdownHook>> : t \in HookEvents}
    /\ last' = Last("init", "listen")
    /\ UNCHANGED <<pendingMessages, promises, nextId, bindings, disposed,
                   disposePc, disposeId, wire, inflight, loglevel, exiting,
                   exitCode>>

\* init(), first half: register the process listeners, connect, wrap the
\* stream, install the 'data' listener.
initListen ==
    /\ initPc = "start"
    /\ initPc' = "listen"
    /\ hooks' = hooks \cup {<<t, ShutdownHook>> : t \in HookEvents}
    /\ secStream' = "open"
    /\ listening' = TRUE
    /\ last' = Last("init", "listen")
    /\ UNCHANGED <<pendingMessages, promises, nextId, bindings, disposed,
                   disposePc, disposeId, wire, inflight, loglevel, exiting,
                   exitCode>>

\* init(), second half: the "kernel/init" request.
initRequest ==
    /\ initPc = "listen"
    /\ initPc' = "done"
    /\ doRequest("kernel/init", config.timeout, EmptyObj)
    /\ last' = Last("init", "request")
    /\ UNCHANGED <<secStream, listening, bindings, disposed, disposePc,
                   disposeId, inflight, loglevel, hooks, exiting, exitCode>>

\* --------------------------------------------------------------- request

\* request(eventname, payload) -> requestCustomTimeout -> doRequest.
request(eventname, payload) ==
    doRequest(eventname, config.timeout, payload)

Request(eventname) ==
    /\ Idle
    /\ Running
    /\ request(eventname, EmptyObj)
    /\ last' = Last("request", "")
    /\ UNCHANGED <<secStream, listening, initPc, bindings, disposed,
                   disposePc, disposeId, inflight, loglevel, hooks, exiting,
                   exitCode>>

\* ------------------------------------------------------------------- Log

\* requestInternal(eventname, timeout, payload) -> doRequest, the logger
\* parameter left at its default.
requestInternal(eventname, timeout, payload) ==
    doRequest(eventname, timeout, payload)

\* Log(logLevel, content).
Log(logLevel) ==
    IF ~LogIssues(logLevel)
    THEN /\ last' = last
         /\ UNCHANGED <<pendingMessages, promises, nextId, wire>>
    ELSE /\ requestInternal("kernel/log", config.timeout, LogMessage)
         /\ last' = Last("log", "request")

LogCall(logLevel) ==
    /\ Idle
    /\ Running
    /\ Log(logLevel)
    /\ UNCHANGED <<secStream, listening, initPc, bindings, disposed,
                   disposePc, disposeId, inflight, loglevel, hooks, exiting,
                   exitCode>>

\* ------------------------------------------------------------- Delegate

\* Delegate.bind(func, classcontext): the pair is appended, duplicates kept.
bind(funcs, pair) == Append(funcs, pair)

\* The index of the first binding equal to pair (0: none).
FirstMatch(funcs, pair) ==
    IF \E i \in 1 .. Len(funcs) : funcs[i] = pair
    THEN CHOOSE i \in 1 .. Len(funcs) :
            /\ funcs[i] = pair
            /\ \A j \in 1 .. (i - 1) : funcs[j] # pair
    ELSE 0

\* Delegate.unbind(func, classcontext): the first matching pair is removed.
unbind(funcs, pair) ==
    LET k == FirstMatch(funcs, pair)
    IN  IF k = 0
        THEN funcs
        ELSE [i \in 1 .. (Len(funcs) - 1) |->
                IF i < k THEN funcs[i] ELSE funcs[i + 1]]

\* --------------------------------------------------- subscribe, unsubscribe

\* subscribe binding a pair only when the Delegate does not hold it yet.
subscribe_noDuplicates(eventname, pair) ==
    /\ Len(bindings[eventname].funcs) < MaxBindings
    /\ IF ~bindings[eventname].has
       THEN /\ request("kernel/subscribe", JObj(eventname))
            /\ last' = Last("subscribe", "new")
       ELSE /\ UNCHANGED <<pendingMessages, promises, nextId, wire>>
            /\ last' = Last("subscribe", "existing")
    /\ bindings' = [bindings EXCEPT ![eventname] =
            [has |-> TRUE,
             funcs |-> IF FirstMatch(bindings[eventname].funcs, pair) = 0
                       THEN bind(bindings[eventname].funcs, pair)
                       ELSE bindings[eventname].funcs]]

\* subscribe notifying the kernel at every call.
subscribe_alwaysNotifies(eventname, pair) ==
    /\ Len(bindings[eventname].funcs) < MaxBindings
    /\ request("kernel/subscribe", JObj(eventname))
    /\ last' = Last("subscribe", IF ~bindings[eventname].has THEN "new"
                                 ELSE "existing")
    /\ bindings' = [bindings EXCEPT ![eventname] =
            [has |-> TRUE, funcs |-> bind(bindings[eventname].funcs, pair)]]

\* subscribe(eventname, func, classcontext).
subscribe(eventname, pair) ==
    /\ Len(bindings[eventname].funcs) < MaxBindings
    /\ IF ~bindings[eventname].has
       THEN /\ request("kernel/subscribe", JObj(eventname))
            /\ last' = Last("subscribe", "new")
       ELSE /\ UNCHANGED <<pendingMessages, promises, nextId, wire>>
            /\ last' = Last("subscribe", "existing")
    /\ bindings' = [bindings EXCEPT ![eventname] =
            [has |-> TRUE, funcs |-> bind(bindings[eventname].funcs, pair)]]

Subscribe(eventname, pair) ==
    /\ Idle
    /\ Running
    /\ subscribe(eventname, pair)
    /\ UNCHANGED <<secStream, listening, initPc, disposed, disposePc,
                   disposeId, inflight, loglevel, hooks, exiting, exitCode>>

\* unsubscribe leaving the emptied Delegate in the map.
unsubscribe_keepsEmpty(eventname, pair) ==
    LET funcs == unbind(bindings[eventname].funcs, pair)
    IN  IF ~bindings[eventname].has
        THEN /\ last' = last
             /\ UNCHANGED <<bindings, pendingMessages, promises, nextId, wire>>
        ELSE IF Len(funcs) = 0
        THEN /\ bindings' = [bindings EXCEPT ![eventname] =
                    [has |-> TRUE, funcs |-> funcs]]
             /\ last' = Last("unsubscribe", "deleted")
             /\ UNCHANGED <<pendingMessages, promises, nextId, wire>>
        ELSE /\ bindings' = [bindings EXCEPT ![eventname] =
                    [has |-> TRUE, funcs |-> funcs]]
             /\ request("kernel/unsubscribe", JObj(eventname))
             /\ last' = Last("unsubscribe", "notified")

\* unsubscribe(eventname, func, classcontext).
unsubscribe(eventname, pair) ==
    LET funcs == unbind(bindings[eventname].funcs, pair)
    IN  IF ~bindings[eventname].has
        THEN /\ last' = last
             /\ UNCHANGED <<bindings, pendingMessages, promises, nextId, wire>>
        ELSE IF Len(funcs) = 0
        THEN /\ bindings' = [bindings EXCEPT ![eventname] = NoDelegate]
             /\ last' = Last("unsubscribe", "deleted")
             /\ UNCHANGED <<pendingMessages, promises, nextId, wire>>
        ELSE /\ bindings' = [bindings EXCEPT ![eventname] =
                    [has |-> TRUE, funcs |-> funcs]]
             /\ request("kernel/unsubscribe", JObj(eventname))
             /\ last' = Last("unsubscribe", "notified")

Unsubscribe(eventname, pair) ==
    /\ Idle
    /\ Running
    /\ unsubscribe(eventname, pair)
    /\ UNCHANGED <<secStream, listening, initPc, disposed, disposePc,
                   disposeId, inflight, loglevel, hooks, exiting, exitCode>>

\* --------------------------------------------------------------- dispose

\* secStream.destroy().
destroy ==
    /\ secStream' = "destroyed"
    /\ wire' = Append(wire, DestroyCall)

\* process.off(eventType, listener) for every event type: the pairs with
\* that very listener are removed.
processOff(listener) == hooks \ {<<t, listener>> : t \in HookEvents}

\* dispose without its guard.
dispose_noGuard ==
    /\ disposed' = TRUE
    /\ hooks' = processOff(DisposeArrow)
    /\ bindings' = [e \in Events |-> NoDelegate]
    /\ request("kernel/dispose", EmptyObj)
    /\ disposeId' = nextId
    /\ disposePc' = IF secStream = "none" THEN "caught" ELSE "awaiting"
    /\ UNCHANGED secStream

\* dispose() up to its await.  With no stream yet the request is rejected
\* at once and the catch block ends the call.
dispose ==
    IF disposed
    THEN UNCHANGED <<secStream, pendingMessages, promises, nextId, bindings,
                     disposed, disposePc, disposeId, wire, hooks>>
    ELSE /\ disposed' = TRUE
         /\ hooks' = processOff(DisposeArrow)
         /\ bindings' = [e \in Events |-> NoDelegate]
         /\ request("kernel/dispose", EmptyObj)
         /\ disposeId' = nextId
         /\ disposePc' = IF secStream = "none" THEN "caught" ELSE "awaiting"
         /\ UNCHANGED secStream

Dispose ==
    /\ Idle
    /\ Running
    /\ dispose
    /\ last' = Last("dispose", IF disposed THEN "guard" ELSE "first")
    /\ UNCHANGED <<listening, initPc, inflight, loglevel, exiting, exitCode>>

\* ------------------------------------------------------ the process listener

\* The listener init() registered, called with code: dispose() is awaited,
\* then process.exit(code).  The await returns within the turn when
\* dispose() returned at its guard or in its catch block.
hook(code) ==
    /\ dispose
    /\ IF disposed \/ secStream = "none"
       THEN /\ exitCode' = code
            /\ exiting' = exiting
       ELSE /\ exitCode' = exitCode
            /\ exiting' = Append(exiting, code)

\* A signal is delivered to the process.
HookFires(signal) ==
    /\ Idle
    /\ Running
    /\ <<signal, ShutdownHook>> \in hooks
    /\ hook(signal)
    /\ last' = Last("hook", IF disposed THEN "exit" ELSE "awaiting")
    /\ UNCHANGED <<listening, initPc, inflight, loglevel>>

\* ------------------------------------------------- Delegate.invokeAsync

\* A fan-out the listener awaits: the envelope's id and eventname, the
\* bindings invoked and, per binding, the uuid of the request its handler
\* has issued and is waiting for (0: none).
Fanout(id, eventname, funcs) ==
    [id |-> id, eventname |-> eventname, funcs |-> funcs,
     awaits |-> [i \in 1 .. Len(funcs) |-> 0]]

\* How the handlers of a fan-out over n bindings stand at its cutoff: each
\* has returned ("ok"), thrown ("err") or is still running ("run"); order
\* ranks the handlers by the time they settle.
Orders(S) ==
    {o \in [1 .. Cardinality(S) -> S] :
        \A i, j \in 1 .. Cardinality(S) : i # j => o[i] # o[j]}
Outcomes(n) ==
    {[st |-> st, order |-> o] :
        st \in [1 .. n -> {"run", "ok", "err"}], o \in Orders(1 .. n)}

\* What the handler of a binding returns.
HandlerResult(pair) == pair[1]

\* The indices of the handlers that completed successfully, ascending.
Successful(st) ==
    SelectSeq([i \in 1 .. Len(st) |-> i], LAMBDA i : st[i] = "ok")

\* invokeAsync collecting the results as the handlers settle.
invokeAsync_completionOrder(funcs, out) ==
    LET ok == SelectSeq(out.order, LAMBDA i : out.st[i] = "ok")
    IN  <<[j \in 1 .. Len(ok) |-> HandlerResult(funcs[ok[j]])],
          Len(funcs) - Len(ok)>>

\* invokeAsync at its cutoff: [results, unfinished].
invokeAsync(funcs, out) ==
    LET ok == Successful(out.st)
    IN  <<[j \in 1 .. Len(ok) |-> HandlerResult(funcs[ok[j]])],
          Len(funcs) - Len(ok)>>

\* ------------------------------------------------------ the 'data' listener

\* ResponseArray(...(data.payload ?? [])).
ResponseArray(payload) == IF payload.t = "arr" THEN payload.v ELSE <<>>

\* processedResults reporting success whatever the unfinished count.
processedResults_always200(id, results, unfinished) ==
    [op |-> "write", kind |-> "response", id |-> id, pass |-> "",
     modulename |-> modulename, eventname |-> "", timeout |-> "",
     payload |-> JNull, statuscode |-> 200, detailedstatus |-> "",
     content |-> results]

\* The response the listener packs from [results, unfinished].
processedResults(id, results, unfinished) ==
    [op |-> "write", kind |-> "response", id |-> id, pass |-> "",
     modulename |-> modulename, eventname |-> "", timeout |-> "",
     payload |-> JNull,
     statuscode |-> IF unfinished = 0 THEN 200 ELSE 207,
     detailedstatus |-> IF unfinished = 0 THEN ""
                        ELSE "PARTIAL_TIMEOUT" \o "|" \o ToString(unfinished),
     content |-> results]

\* resolve reading the envelope's content field.
resolve_content(key, data) ==
    promises' = [promises EXCEPT ![key] =
        [path |-> @.path,
         st |-> IF @.st = "pending" THEN "resolved" ELSE @.st,
         val |-> IF @.st = "pending" THEN ResponseArray(data.content) ELSE @.val,
         n |-> @.n + 1,
         by |-> IF @.st = "pending" THEN data.id ELSE @.by]]

\* The callback stored under key applied to the envelope's payload: a
\* promise settles once, later calls of its resolve function change nothing.
resolve(key, data) ==
    promises' = [promises EXCEPT ![key] =
        [path |-> @.path,
         st |-> IF @.st = "pending" THEN "resolved" ELSE @.st,
         val |-> IF @.st = "pending" THEN ResponseArray(data.payload) ELSE @.val,
         n |-> @.n + 1,
         by |-> IF @.st = "pending" THEN data.id ELSE @.by]]

\* The rest of dispose() once its awaited request is resolved, and then
\* the rest of the process listener that awaited dispose().
disposeResume(id) ==
    IF disposePc = "awaiting" /\ id = disposeId
    THEN /\ destroy
         /\ disposePc' = "done"
         /\ exitCode' = IF exiting # << >> THEN Head(exiting) ELSE exitCode
    ELSE UNCHANGED <<secStream, wire, disposePc, exitCode>>

\* Fan-outs started so far: those awaited and those answered.
Dispatched ==
    Len(inflight) + Len(SelectSeq(wire, LAMBDA w : w.kind = "response"))

\* has answering for every name the application ever uses.
has_declared(eventname) == eventname \in Events

\* this.bindings.has(eventname).
has(eventname) == eventname \in Events /\ bindings[eventname].has

\* The ids of the requests written so far.
SentIds == {wire[i].id : i \in {j \in 1 .. Len(wire) : wire[j].kind = "request"}}

\* correlate with correlation by call order: the oldest pending request is
\* taken to be the one answered.
correlate_byCallOrder(data) ==
    LET oldest == CHOOSE m \in pendingMessages : \A x \in pendingMessages : m <= x
    IN  /\ resolve(oldest, data)
        /\ pendingMessages' = pendingMessages \ {oldest}
        /\ disposeResume(oldest)
        /\ last' = Last("data", IF has(data.eventname) THEN "responseBound"
                                ELSE "response")
        /\ UNCHANGED <<inflight, nextId, bindings, disposed, disposeId,
                       hooks, exiting>>

\* correlate with the pending entry left in the map.
correlate_keepEntry(data) ==
    /\ resolve(data.id, data)
    /\ pendingMessages' = pendingMessages
    /\ disposeResume(data.id)
    /\ last' = Last("data", IF has(data.eventname) THEN "responseBound"
                            ELSE "response")
    /\ UNCHANGED <<inflight, nextId, bindings, disposed, disposeId, hooks,
                   exiting>>

\* The listener's correlation branch.
correlate(data) ==
    /\ resolve(data.id, data)
    /\ pendingMessages' = pendingMessages \ {data.id}
    /\ disposeResume(data.id)
    /\ last' = Last("data", IF has(data.eventname) THEN "responseBound"
                            ELSE "response")
    /\ UNCHANGED <<inflight, nextId, bindings, disposed, disposeId, hooks,
                   exiting>>

\* dispatch answering an event nobody subscribed to with an empty success.
dispatch_answersUnbound(data) ==
    IF ~has(data.eventname)
    THEN /\ last' = Last("data", IF data.id \in SentIds THEN "echo"
                                 ELSE IF data.eventname = NoEvent THEN "unknown"
                                 ELSE "unsubscribed")
         /\ wire' = Append(wire, processedResults(data.id, <<>>, 0))
         /\ UNCHANGED <<secStream, disposePc, pendingMessages, promises,
                        inflight, nextId, bindings, disposed, disposeId,
                        hooks, exiting, exitCode>>
    ELSE /\ Dispatched < MaxDispatch
         /\ inflight' = Append(inflight,
                Fanout(data.id, data.eventname, bindings[data.eventname].funcs))
         /\ last' = Last("data", "event")
         /\ UNCHANGED <<secStream, wire, disposePc, pendingMessages, promises,
                        nextId, bindings, disposed, disposeId, hooks, exiting,
                        exitCode>>

\* The listener's event branch, up to its await.
dispatch(data) ==
    IF ~has(data.eventname)
    THEN /\ last' = Last("data", IF data.id \in SentIds THEN "echo"
                                 ELSE IF data.eventname = NoEvent THEN "unknown"
                                 ELSE "unsubscribed")
         /\ UNCHANGED <<secStream, wire, disposePc, pendingMessages, promises,
                        inflight, nextId, bindings, disposed, disposeId,
                        hooks, exiting, exitCode>>
    ELSE /\ Dispatched < MaxDispatch
         /\ inflight' = Append(inflight,
                Fanout(data.id, data.eventname, bindings[data.eventname].funcs))
         /\ last' = Last("data", "event")
         /\ UNCHANGED <<secStream, wire, disposePc, pendingMessages, promises,
                        nextId, bindings, disposed, disposeId, hooks, exiting,
                        exitCode>>

\* JSON.parse threw in the listener, an async function: the promise of the
\* call is rejected and nobody handles it.  The runtime prints a warning, or
\* emits 'uncaughtException' with the error, which calls the process
\* listener.
unhandledRejection(mode) ==
    IF mode = "warn"
    THEN /\ last' = last
         /\ UNCHANGED <<secStream, wire, disposePc, pendingMessages, promises,
                        inflight, nextId, bindings, disposed, disposeId,
                        hooks, exiting, exitCode>>
    ELSE /\ <<"uncaughtException", ShutdownHook>> \in hooks
         /\ hook("SyntaxError")
         /\ last' = Last("data", "uncaught")
         /\ UNCHANGED inflight

\* onData looking up the eventname before the pending map.
onData_eventFirst(data) ==
    IF data.t = "malformed"
    THEN \E mode \in UnhandledRejections : unhandledRejection(mode)
    ELSE IF data.t = "null"
    THEN /\ last' = last
         /\ UNCHANGED <<secStream, wire, disposePc, pendingMessages, promises,
                        inflight, nextId, bindings, disposed, disposeId,
                        hooks, exiting, exitCode>>
    ELSE IF has(data.eventname)
    THEN dispatch(data)
    ELSE IF data.id \in pendingMessages
    THEN correlate(data)
    ELSE dispatch(data)

\* secStream.on('data', ...) for one body: JSON.parse(body) throws, or
\* yields null, or yields an envelope.
onData(data) ==
    IF data.t = "malformed"
    THEN \E mode \in UnhandledRejections : unhandledRejection(mode)
    ELSE IF data.t = "null"
    THEN /\ last' = last
         /\ UNCHANGED <<secStream, wire, disposePc, pendingMessages, promises,
                        inflight, nextId, bindings, disposed, disposeId,
                        hooks, exiting, exitCode>>
    ELSE IF data.id \in pendingMessages
    THEN correlate(data)
    ELSE dispatch(data)

\* What the kernel can send: a body that is not JSON (the empty body
\* included); a body that parses to null; an envelope with the uuid of a
\* request it was sent (a response or an echo: an array payload or none);
\* an envelope with an id of its own (an event).
Inbound ==
    {[t |-> "malformed", id |-> 0, eventname |-> "", payload |-> JNull,
      content |-> JNull],
     [t |-> "null", id |-> 0, eventname |-> "", payload |-> JNull,
      content |-> JNull]}
    \cup [t : {"env"}, id : SentIds, eventname : Events \cup {NoEvent},
          payload : InPayloads, content : {InContent}]
    \cup [t : {"env"}, id : ForeignIds, eventname : Events \cup {NoEvent},
          payload : {JNull}, content : {JNull}]

\* OnData with the listener not re-entered while a fan-out is awaited.
OnData_blocking(data) ==
    /\ inflight = << >>
    /\ Idle
    /\ Running
    /\ listening
    /\ secStream = "open"
    /\ onData(data)
    /\ UNCHANGED <<listening, initPc, loglevel>>

\* A body arrives on the stream: one turn of the 'data' listener.
OnData(data) ==
    /\ Idle
    /\ Running
    /\ listening
    /\ secStream = "open"
    /\ onData(data)
    /\ UNCHANGED <<listening, initPc, loglevel>>

\* The listener after its await: the response is packed and written.
respond(f, out) ==
    LET r == invokeAsync(f.funcs, out)
    IN  wire' = Append(wire, processedResults(f.id, r[1], r[2]))

\* A handler of fan-out k calls request() and waits for the answer.
HandlerRequests(k, i, eventname) ==
    /\ Idle
    /\ Running
    /\ inflight[k].awaits[i] = 0
    /\ request(eventname, EmptyObj)
    /\ inflight' = [inflight EXCEPT ![k].awaits[i] = nextId]
    /\ last' = Last("handler", "request")
    /\ UNCHANGED <<secStream, listening, initPc, bindings, disposed,
                   disposePc, disposeId, loglevel, hooks, exiting, exitCode>>

\* A handler that waits for a request still pending has not settled.
CanReturn(f, out) ==
    \A i \in 1 .. Len(f.funcs) :
        (f.awaits[i] # 0 /\ promises[f.awaits[i]].st = "pending")
            => out.st[i] = "run"

\* invokeAsync returns to the listener: every handler has settled, or the
\* envelope's timeout has elapsed.
FanoutReturns(k, out) ==
    /\ Idle
    /\ Running
    /\ CanReturn(inflight[k], out)
    /\ respond(inflight[k], out)
    /\ inflight' = [i \in 1 .. (Len(inflight) - 1) |->
                        IF i < k THEN inflight[i] ELSE inflight[i + 1]]
    /\ last' = Last("respond", "")
    /\ UNCHANGED <<secStream, listening, initPc, pendingMessages, promises,
                   nextId, bindings, disposed, disposePc, disposeId, loglevel,
                   hooks, exiting, exitCode>>

Next ==
    \/ initListen
    \/ initRequest
    \/ \E p \in RequestPaths : Request(p)
    \/ \E e \in Events, b \in BindingPairs : Subscribe(e, b)
    \/ \E e \in Events, b \in BindingPairs : Unsubscribe(e, b)
    \/ \E l \in CallLevels : LogCall(l)
    \/ Dispose
    \/ \E g \in Signals : HookFires(g)
    \/ \E d \in Inbound : OnData(d)
    \/ \E k \in 1 .. Len(inflight) :
            \E i \in 1 .. Len(inflight[k].funcs), p \in RequestPaths :
                HandlerRequests(k, i, p)
    \/ \E k \in 1 .. Len(inflight) :
            \E out \in Outcomes(Len(inflight[k].funcs)) : FanoutReturns(k, out)

Spec == Init /\ [][Next]_vars

\* The fan-out's deadline timer fires; the kernel and the application owe
\* the link nothing.
FairSpec ==
    /\ Spec
    /\ WF_vars(\E k \in 1 .. Len(inflight) :
            \E out \in Outcomes(Len(inflight[k].funcs)) : FanoutReturns(k, out))

\* ================================================================== claims

\* The requests written so far with the given eventname.
Written(path) ==
    SelectSeq(wire, LAMBDA w : w.kind = "request" /\ w.eventname = path)
\* The responses written so far.
Responses == SelectSeq(wire, LAMBDA w : w.kind = "response")
\* The calls of secStream.destroy() so far.
DestroyCalls == SelectSeq(wire, LAMBDA w : w.op = "destroy")
\* Envelopes with a uuid of this link.
OwnEnvelopes == {d \in Inbound : d.t = "env" /\ d.id \in Ids}

\* C1: whatever the number of outstanding requests and the order of the
\* kernel's answers, a request's promise is resolved for the envelope that
\* carries the request's own uuid, with that envelope's payload, and never
\* for an envelope carrying another uuid.
C1_ResolvedByOwnId ==
    /\ \A i \in Ids : promises[i].st = "resolved" => promises[i].by = i
    /\ \A i \in Ids : promises[i].n > 0 => promises[i].st = "resolved"

\* Two requests are outstanding together and the later one is answered
\* first.
C1_Witness ==
    \E i, j \in Ids :
        /\ i < j
        /\ promises[i].st = "pending"
        /\ promises[j].st = "resolved"
        /\ promises[j].by = j

\* C2: a request is resolved exactly once: the first inbound envelope with
\* its uuid resolves it and removes its pending entry; no later envelope
\* with that uuid calls its callback again or changes its value.
C2_ResolvedOnce ==
    /\ [](\A i \in Ids :
            /\ promises[i].n <= 1
            /\ promises[i].st = "resolved" => i \notin pendingMessages)
    /\ [][\A d \in OwnEnvelopes :
            (promises[d.id].st = "pending" /\ OnData(d)) =>
                /\ promises'[d.id].st = "resolved"
                /\ promises'[d.id].val = ResponseArray(d.payload)
                /\ d.id \notin pendingMessages']_vars
    /\ [][\A i \in Ids :
            promises[i].st = "resolved" => promises'[i] = promises[i]]_vars

\* An envelope echoing the uuid of an already resolved request has been
\* handled.
C2_Witness ==
    /\ last = Last("data", "echo")
    /\ \E i \in Ids : promises[i].st = "resolved" /\ promises[i].n = 1

\* The promise init() returned.
InitPromises == {i \in Ids : promises[i].path = "kernel/init"}

\* C3: init() installs the listener before it writes "kernel/init", so the
\* answer is correlated whenever it arrives after the write, and the promise
\* init() returns resolves when, and only when, the envelope with the init
\* request's uuid arrives.
C3_ListenBeforeInit ==
    /\ [](Len(Written("kernel/init")) > 0 => listening)
    /\ [](\A i \in InitPromises : promises[i].st = "resolved" => promises[i].by = i)
    /\ [][\A d \in OwnEnvelopes :
            (d.id \in InitPromises /\ promises[d.id].st = "pending" /\ OnData(d))
                => promises'[d.id].st = "resolved"]_vars

\* The promise init() returned is resolved.
C3_Witness ==
    \E i \in InitPromises : promises[i].st = "resolved" /\ promises[i].by = i

\* The handlers of an outcome that did not complete successfully.
UnfinishedOf(out) == Cardinality({i \in DOMAIN out.st : out.st[i] # "ok"})

\* C4: an inbound envelope whose id is not pending and whose eventname has
\* a Subscription starts one fan-out and writes nothing yet; when the
\* fan-out returns, exactly one response is written, with the envelope's id
\* and this module's name, 200 and "" if nothing is unfinished and otherwise
\* 207 and "PARTIAL_TIMEOUT|<unfinished>"; no other turn writes a response.
C4_OneResponsePerEvent ==
    [][/\ \A d \in Inbound :
            (d.t = "env" /\ d.id \notin pendingMessages /\ has(d.eventname)
                /\ OnData(d)) =>
                /\ inflight' = Append(inflight,
                        Fanout(d.id, d.eventname, bindings[d.eventname].funcs))
                /\ wire' = wire
       /\ \A k \in 1 .. Len(inflight) :
            \A out \in Outcomes(Len(inflight[k].funcs)) :
                FanoutReturns(k, out) =>
                    LET K == UnfinishedOf(out)
                        r == wire'[Len(wire')]
                    IN  /\ Len(wire') = Len(wire) + 1
                        /\ Len(inflight') = Len(inflight) - 1
                        /\ r.kind = "response"
                        /\ r.id = inflight[k].id
                        /\ r.modulename = modulename
                        /\ r.statuscode = (IF K = 0 THEN 200 ELSE 207)
                        /\ r.detailedstatus =
                            (IF K = 0 THEN ""
                             ELSE "PARTIAL_TIMEOUT|" \o ToString(K))
       /\ (Len(Responses') # Len(Responses) \/ Len(inflight') < Len(inflight))
            => \E k \in 1 .. Len(inflight) :
                \E out \in Outcomes(Len(inflight[k].funcs)) :
                    FanoutReturns(k, out)]_vars

\* An event of the kernel has been answered with a partial result.
C4_Witness ==
    /\ inflight = <<>>
    /\ \E i \in 1 .. Len(Responses) :
        /\ Responses[i].id \in ForeignIds
        /\ Responses[i].statuscode = 207
        /\ Responses[i].detailedstatus = "PARTIAL_TIMEOUT|2"

\* The results of the handlers that returned, in binding order.
RECURSIVE ExpectedResults(_, _)
ExpectedResults(funcs, st) ==
    IF funcs = <<>>
    THEN <<>>
    ELSE (IF Head(st) = "ok" THEN <<HandlerResult(Head(funcs))>> ELSE <<>>)
            \o ExpectedResults(Tail(funcs), Tail(st))

\* C5: a fan-out over N bindings of which K have not completed successfully
\* at the cutoff (still running, or thrown) yields unfinishedCount = K and
\* N - K results, in binding order whatever the order of completion; with
\* K = 0 that is 0 and N results.
C5_FanoutCounts ==
    [][\A k \in 1 .. Len(inflight) :
        \A out \in Outcomes(Len(inflight[k].funcs)) :
            FanoutReturns(k, out) =>
                LET N == Len(inflight[k].funcs)
                    K == UnfinishedOf(out)
                    r == invokeAsync(inflight[k].funcs, out)
                IN  /\ r[2] = K
                    /\ Len(r[1]) = N - K
                    /\ r[1] = ExpectedResults(inflight[k].funcs, out.st)
                    /\ wire'[Len(wire')].content = r[1]]_vars

\* Of two bindings the second returned and the first did not.
C5_Witness ==
    \E i \in 1 .. Len(Responses) :
        /\ Responses[i].content = <<"h2">>
        /\ Responses[i].detailedstatus = "PARTIAL_TIMEOUT|1"

\* C6: an inbound envelope whose id is pending is handled as a response
\* only: it resolves that request and stops; no fan-out starts and no
\* response is written, also when its eventname has bindings.
C6_ResponseTakesPriority ==
    [][\A d \in OwnEnvelopes :
        (d.id \in pendingMessages /\ OnData(d)) =>
            /\ inflight' = inflight
            /\ Responses' = Responses
            /\ d.id \notin pendingMessages'
            /\ promises'[d.id].n = promises[d.id].n + 1]_vars

\* A response naming an event with bindings has been correlated.
C6_Witness ==
    /\ last = Last("data", "responseBound")
    /\ inflight = <<>>
    /\ Responses = <<>>

\* C7: a response envelope (no eventname) whose id is not pending is
\* dropped: no pending entry is resolved or removed, the bindings are
\* unchanged, no fan-out starts and nothing is written.
C7_UnknownResponseDropped ==
    [][\A d \in Inbound :
        (d.t = "env" /\ d.eventname = NoEvent /\ d.id \notin pendingMessages
            /\ OnData(d)) =>
            UNCHANGED <<secStream, listening, initPc, pendingMessages,
                        promises, nextId, bindings, disposed, disposePc,
                        disposeId, wire, inflight, hooks, exiting,
                        exitCode>>]_vars

\* A response with a never-issued id has been handled while requests were
\* pending and handlers bound.
C7_Witness ==
    /\ last = Last("data", "unknown")
    /\ pendingMessages # {}
    /\ \E e \in Events : has(e)

C9_CancelledBeforeClose ==
    secStream = "destroyed" =>
        /\ pendingMessages = {}
        /\ \A i \in Ids : promises[i].st # "pending"

\* C10: a dispose() call that passed the guard on a connected link
\* eventually closes the stream, whether or not the kernel answers (a
\* process that exits closes it too).
C10_DisposeCloses ==
    (disposePc = "awaiting") ~> (secStream = "destroyed" \/ exitCode # NotExited)

\* The bindings of a Delegate list equal to pair.
CountIn(funcs, pair) ==
    Cardinality({i \in 1 .. Len(funcs) : funcs[i] = pair})

\* C11: each subscribe call appends one binding of its (event, handler,
\* context) triple, also when an identical binding exists, and each
\* unsubscribe call removes exactly one binding of its triple if there is
\* one; the bindings of every other triple keep their number.  So k
\* subscribes and j unsubscribes of a bound triple leave k - j of it.
C11_BindingCounts ==
    [][\A e \in Events, b \in BindingPairs :
        /\ Subscribe(e, b) =>
                \A c \in BindingPairs :
                    CountIn(bindings'[e].funcs, c) =
                        CountIn(bindings[e].funcs, c) + (IF c = b THEN 1 ELSE 0)
        /\ Unsubscribe(e, b) =>
                \A c \in BindingPairs :
                    CountIn(bindings'[e].funcs, c) =
                        CountIn(bindings[e].funcs, c)
                            - (IF c = b /\ CountIn(bindings[e].funcs, b) > 0
                               THEN 1 ELSE 0)]_vars

\* The same triple has been subscribed twice and is bound twice.
C11_Witness ==
    /\ last = Last("subscribe", "existing")
    /\ \E e \in Events, b \in BindingPairs : bindings[e].funcs = <<b, b>>

\* The "kernel/subscribe" request subscribe() issues for an event name with
\* the given uuid.
SubscribeRequest(uuid, e) ==
    RequestEnvelope(uuid, "kernel/subscribe", config.timeout, JObj(e))

\* C12 as stated: a "kernel/subscribe" request for the name is written
\* exactly when subscribe() creates the entry of the name, none by a
\* subscribe() call that finds the entry, and the binding is appended in
\* both cases, whatever the kernel answers.
C12_SubscribeNotifies ==
    [][/\ \A e \in Events, b \in BindingPairs :
            Subscribe(e, b) =>
                /\ bindings'[e] =
                        [has |-> TRUE, funcs |-> Append(bindings[e].funcs, b)]
                /\ Written("kernel/subscribe")' =
                        (IF ~has(e)
                         THEN Append(Written("kernel/subscribe"),
                                     SubscribeRequest(nextId, e))
                         ELSE Written("kernel/subscribe"))
       /\ Written("kernel/subscribe")' # Written("kernel/subscribe") =>
            \E e \in Events, b \in BindingPairs : ~has(e) /\ Subscribe(e, b)]_vars

\* C12 amended: on a link whose stream init() has opened, a
\* "kernel/subscribe" request for the name is written exactly when
\* subscribe() creates the entry of the name; before init() there is no
\* stream and nothing is written.  The binding is appended in every case.
C12_SubscribeNotifiesConnected ==
    [][/\ \A e \in Events, b \in BindingPairs :
            Subscribe(e, b) =>
                /\ bindings'[e] =
                        [has |-> TRUE, funcs |-> Append(bindings[e].funcs, b)]
                /\ Written("kernel/subscribe")' =
                        (IF ~has(e) /\ secStream # "none"
                         THEN Append(Written("kernel/subscribe"),
                                     SubscribeRequest(nextId, e))
                         ELSE Written("kernel/subscribe"))
       /\ Written("kernel/subscribe")' # Written("kernel/subscribe") =>
            \E e \in Events, b \in BindingPairs :
                ~has(e) /\ secStream # "none" /\ Subscribe(e, b)]_vars

\* A second handler has been subscribed to a name whose one
\* "kernel/subscribe" request the kernel never answered.
C12_Witness ==
    /\ last = Last("subscribe", "existing")
    /\ Len(Written("kernel/subscribe")) = 1
    /\ Written("kernel/subscribe")[1].id \in pendingMessages
    /\ \E e \in Events : Len(bindings[e].funcs) = 2

\* C13: an unsubscribe() call that removes the last binding of a name
\* removes the entry of the name and writes a "kernel/unsubscribe" request
\* for the name, both in that call.
C13_LastUnsubscribeNotifies ==
    [][\A e \in Events, b \in BindingPairs :
        (/\ has(e)
         /\ bindings[e].funcs = <<b>>
         /\ Unsubscribe(e, b)) =>
            /\ ~bindings'[e].has
            /\ Len(Written("kernel/unsubscribe")') =
                    Len(Written("kernel/unsubscribe")) + 1]_vars

\* C14: between turns every name the bindings map holds has at least one
\* binding.
C14_NoEmptyEntry ==
    \A e \in Events : bindings[e].has => Len(bindings[e].funcs) >= 1

\* The last binding of a name has just been unsubscribed.
C14_Witness ==
    /\ last = Last("unsubscribe", "deleted")
    /\ \A e \in Events : ~bindings[e].has /\ bindings[e].funcs = <<>>

\* C16: an inbound envelope that names an event, whose id is not pending
\* and whose eventname has no entry in the bindings map, is dropped: no
\* fan-out starts, nothing is written, and the pending map, the promises
\* and the bindings are unchanged.
C16_UnsubscribedEventDropped ==
    [][\A d \in Inbound :
        (/\ d.t = "env"
         /\ d.eventname \in Events
         /\ ~bindings[d.eventname].has
         /\ d.id \notin pendingMessages
         /\ OnData(d)) =>
            /\ inflight' = inflight
            /\ wire' = wire
            /\ pendingMessages' = pendingMessages
            /\ promises' = promises
            /\ bindings' = bindings]_vars

\* An event nobody is subscribed to has been handled while requests were
\* pending.
C16_Witness ==
    /\ last = Last("data", "unsubscribed")
    /\ pendingMessages # {}
    /\ inflight = <<>>
    /\ Responses = <<>>

\* C15: a body that is not JSON, or that is empty or parses to nothing, is
\* discarded: the pending map, the promises, the bindings, the stream and
\* its writes are unchanged, dispose() is not run and the process does not
\* exit.
C15_MalformedDiscarded ==
    [][\A d \in Inbound :
        (d.t \in {"malformed", "null"} /\ OnData(d)) =>
            UNCHANGED <<pendingMessages, promises, bindings, secStream, wire,
                        inflight, disposed, disposePc, exiting, exitCode>>]_vars

\* C17: a Log call at or above the configured level draws one uuid and
\* issues one "kernel/log" request, and a request draws one uuid and issues
\* no "kernel/log" request, whatever the configured level: no call starts a
\* chain of nested Log and doRequest calls.
C17_LogDoesNotRecurse ==
    [][/\ \A l \in CallLevels :
            (LogIssues(l) /\ LogCall(l)) =>
                /\ nextId' = nextId + 1
                /\ pendingMessages' = pendingMessages \cup {nextId}
       /\ \A p \in RequestPaths :
            Request(p) =>
                /\ nextId' = nextId + 1
                /\ pendingMessages' = pendingMessages \cup {nextId}
                /\ Written("kernel/log")' = Written("kernel/log")
       /\ initRequest =>
                /\ nextId' = nextId + 1
                /\ Written("kernel/log")' = Written("kernel/log")]_vars

\* C18: once the process listener has been called with an exit code and
\* has run dispose(), the process eventually exits, whether or not the
\* kernel answers "kernel/dispose".
C18_HookExits ==
    (exiting # << >>) ~> (exitCode # NotExited)

\* C19: when the first dispose() call has passed its guard, none of the
\* listeners init() registered on the process is registered any more.
C19_HooksDeregistered ==
    [][(~disposed /\ disposed') => hooks' = {}]_vars

\* C20: once the link is disposed, request(), subscribe(), unsubscribe()
\* and Log() add no pending entry, add no binding and write nothing.
C20_DisposedIsTerminal ==
    [][(/\ disposed
        /\ \/ \E p \in RequestPaths : Request(p)
           \/ \E e \in Events, b \in BindingPairs : Subscribe(e, b)
           \/ \E e \in Events, b \in BindingPairs : Unsubscribe(e, b)
           \/ \E l \in CallLevels : LogCall(l)) =>
            UNCHANGED <<pendingMessages, bindings, wire>>]_vars

\* The uuids of the requests that handlers of in-flight fan-outs wait for.
Awaited ==
    UNION {{inflight[k].awaits[i] : i \in 1 .. Len(inflight[k].funcs)} :
                k \in 1 .. Len(inflight)} \ {0}

\* C21: a handler invoked by the dispatch loop that calls request() and
\* waits for the answer does not deadlock the loop.  While the fan-out is in
\* flight and the link is open, the answer that carries the nested
\* request's uuid can still be read; reading it resolves the nested
\* request's promise and leaves the fan-out in flight; after that the
\* handler can complete, and the fan-out then returns with the event's
\* response written.
C21_NestedRequestNoDeadlock ==
    /\ [](\A d \in OwnEnvelopes :
            (d.id \in Awaited /\ d.id \in pendingMessages
                /\ secStream = "open" /\ Running) => ENABLED OnData(d))
    /\ [][\A d \in OwnEnvelopes :
            (d.id \in Awaited /\ d.id \in pendingMessages /\ OnData(d)) =>
                /\ promises'[d.id].st = "resolved"
                /\ inflight' = inflight
                /\ wire' = wire]_vars
    /\ [](\A k \in 1 .. Len(inflight) :
            \A i \in 1 .. Len(inflight[k].funcs) :
                (inflight[k].awaits[i] # 0
                    /\ promises[inflight[k].awaits[i]].st = "resolved"
                    /\ Running) =>
                    \E out \in Outcomes(Len(inflight[k].funcs)) :
                        /\ out.st[i] = "ok"
                        /\ ENABLED FanoutReturns(k, out))
    /\ [][\A k \in 1 .. Len(inflight) :
            \A out \in Outcomes(Len(inflight[k].funcs)) :
                (inflight[k].awaits # [i \in 1 .. Len(inflight[k].funcs) |-> 0]
                    /\ FanoutReturns(k, out)) =>
                    /\ Len(wire') = Len(wire) + 1
                    /\ wire'[Len(wire')].kind = "response"
                    /\ wire'[Len(wire')].id = inflight[k].id]_vars

\* The answer to a handler's nested request has been read and has resolved
\* its promise while the fan-out is still in flight.
C21_Witness ==
    /\ last \in {Last("data", "response"), Last("data", "responseBound")}
    /\ \E k \in 1 .. Len(inflight) :
        \E i \in 1 .. Len(inflight[k].funcs) :
            /\ inflight[k].awaits[i] # 0
            /\ promises[inflight[k].awaits[i]].st = "resolved"

C23_NothingWrittenAfterClose ==
    \A i, j \in 1 .. Len(wire) :
        (i < j /\ wire[i].op = "destroy") => wire[j].kind # "response"

\* C24: an unsubscribe() call whose pair is not bound to the name, while
\* other bindings of the name exist, leaves the bindings unchanged and
\* writes no "kernel/unsubscribe" request.
C24_UnboundUnsubscribeIsNoOp ==
    [][\A e \in Events, b \in BindingPairs :
        (/\ has(e)
         /\ FirstMatch(bindings[e].funcs, b) = 0
         /\ Unsubscribe(e, b)) =>
            /\ bindings' = bindings
            /\ Written("kernel/unsubscribe")' = Written("kernel/unsubscribe")]_vars
====
